---- MODULE Spec2Model ----
(***************************************************************************)
(* Model of src/parsers/game_page_parser.py: the block parsers of a        *)
(* SteamDB application page, SteamDBPageParser.parse which folds them into *)
(* one dict, flatten which projects that dict onto the CSV row, the row    *)
(* writer of main, and load_app_ids.                                       *)
(*                                                                         *)
(* A Python str is a sequence of one-character strings.  The two non-ASCII *)
(* characters that occur are written "endash" (U+2013) and "star" (U+2605).*)
(* A Python value is a tagged record: [t |-> "none"], [t |-> "int", v],    *)
(* [t |-> "float", m, e] (m / 10^e), [t |-> "str", v], [t |-> "list", v],  *)
(* [t |-> "dict", v].  A dict is a function whose DOMAIN is its key set.   *)
(***************************************************************************)
EXTENDS Integers, Sequences, FiniteSets, TLC

\* ---------------------------------------------------------------- bounds
MaxInfoRows == 2
MaxTags == 2
MaxNodes == 3
MaxPriceRows == 2
MaxCsvRows == 3
MaxChartRows == 2

\* ------------------------------------------------------- character classes
Digits == {"0","1","2","3","4","5","6","7","8","9"}
Lower == {"a","b","c","d","e","f","g","h","i","j","k","l","m",
          "n","o","p","q","r","s","t","u","v","w","x","y","z"}
Upper == {"A","B","C","D","E","F","G","H","I","J","K","L","M",
          "N","O","P","Q","R","S","T","U","V","W","X","Y","Z"}
Whitespace == {" ", "\n"}
\* \w of the re module
IsWordChar(c) == c \in Digits \cup Lower \cup Upper \cup {"_"}
\* \d
IsDigit(c) == c \in Digits
\* [\W_]
IsGlyphChar(c) == ~IsWordChar(c) \/ c = "_"

DigitVal(c) == CHOOSE n \in 0..9 : <<"0","1","2","3","4","5","6","7","8","9">>[n+1] = c

\* ------------------------------------------------------------ str helpers
RECURSIVE LStrip(_)
LStrip(s) == IF s # << >> /\ Head(s) \in Whitespace THEN LStrip(Tail(s)) ELSE s

RECURSIVE RStrip(_)
RStrip(s) == IF s # << >> /\ s[Len(s)] \in Whitespace
               THEN RStrip(SubSeq(s, 1, Len(s) - 1)) ELSE s

\* str.strip(), and get_text(strip=True) of a node holding one text string
Strip(s) == RStrip(LStrip(s))

StartsAt(s, i, lit) == /\ i >= 1
                       /\ i + Len(lit) - 1 <= Len(s)
                       /\ SubSeq(s, i, i + Len(lit) - 1) = lit

\* the "in" operator on two strs
Contains(s, lit) == \E i \in 1..(Len(s) + 1) : StartsAt(s, i, lit)

EndsWith(s, lit) == StartsAt(s, Len(s) - Len(lit) + 1, lit)

\* str.split(): the maximal runs of non-whitespace characters
RECURSIVE SplitWs(_)
SplitWs(s) ==
  LET t == LStrip(s)
      n == IF \E i \in 1..Len(t) : t[i] \in Whitespace
             THEN (CHOOSE i \in 1..Len(t) :
                     /\ t[i] \in Whitespace
                     /\ \A j \in 1..(i-1) : t[j] \notin Whitespace) - 1
             ELSE Len(t)
  IN IF t = << >> THEN << >>
     ELSE <<SubSeq(t, 1, n)>> \o SplitWs(SubSeq(t, n + 1, Len(t)))

\* sep.join(list)
RECURSIVE Join(_, _)
Join(sep, l) == IF l = << >> THEN << >>
                ELSE IF Len(l) = 1 THEN l[1]
                ELSE l[1] \o sep \o Join(sep, Tail(l))

\* ------------------------------------------------------------- Python values
None == [t |-> "none"]
PyInt(n) == [t |-> "int", v |-> n]
PyFloat(m, e) == [t |-> "float", m |-> m, e |-> e]
PyStr(s) == [t |-> "str", v |-> s]
PyList(l) == [t |-> "list", v |-> l]
PyDict(d) == [t |-> "dict", v |-> d]
EmptyDict == [k \in {} |-> None]

\* dict.update(other): keys of other win
Update(d, o) == [k \in DOMAIN d \cup DOMAIN o |-> IF k \in DOMAIN o THEN o[k] ELSE d[k]]
\* dict.get(key, default)
Get(d, k, default) == IF k \in DOMAIN d THEN d[k] ELSE default

\* ------------------------------------------------------ int() and float()
RECURSIVE DigitsValue(_, _)
DigitsValue(s, acc) == IF s = << >> THEN acc
                       ELSE IF Head(s) = "_" THEN DigitsValue(Tail(s), acc)
                       ELSE DigitsValue(Tail(s), acc * 10 + DigitVal(Head(s)))

\* a digit group of a Python numeric literal: digits, single underscores between
IsDigitGroup(s) == /\ s # << >>
                   /\ \A i \in 1..Len(s) : IsDigit(s[i]) \/ s[i] = "_"
                   /\ IsDigit(s[1]) /\ IsDigit(s[Len(s)])
                   /\ \A i \in 1..(Len(s) - 1) : ~(s[i] = "_" /\ s[i+1] = "_")

Unsigned(s) == IF s # << >> /\ Head(s) \in {"+", "-"} THEN Tail(s) ELSE s
Sign(s) == IF s # << >> /\ Head(s) = "-" THEN -1 ELSE 1

\* int(s) succeeds
IntOk(s) == IsDigitGroup(Unsigned(Strip(s)))
\* int(s) when it succeeds
IntValue(s) == Sign(Strip(s)) * DigitsValue(Unsigned(Strip(s)), 0)

RECURSIVE Pow10(_)
Pow10(n) == IF n = 0 THEN 1 ELSE 10 * Pow10(n - 1)

RECURSIVE Normalise(_, _)
Normalise(m, e) == IF e > 0 /\ m % 10 = 0 THEN Normalise(m \div 10, e - 1)
                   ELSE <<m, e>>

PointAt(s) == IF \E i \in 1..Len(s) : s[i] = "."
                THEN CHOOSE i \in 1..Len(s) : s[i] = "." /\ \A j \in 1..(i-1) : s[j] # "."
                ELSE 0
\* float(s) succeeds; decimal forms without exponent (the inputs drawn below
\* hold no exponent, "inf" or "nan")
FloatOk(s) ==
  LET u == Unsigned(Strip(s))
      p == PointAt(u)
      whole == IF p = 0 THEN u ELSE SubSeq(u, 1, p - 1)
      frac == IF p = 0 THEN << >> ELSE SubSeq(u, p + 1, Len(u))
  IN /\ whole # << >> \/ frac # << >>
     /\ whole = << >> \/ IsDigitGroup(whole)
     /\ frac = << >> \/ IsDigitGroup(frac)
\* float(s) when it succeeds, as mantissa and decimal exponent
FloatValue(s) ==
  LET u == Unsigned(Strip(s))
      p == PointAt(u)
      whole == IF p = 0 THEN u ELSE SubSeq(u, 1, p - 1)
      frac == IF p = 0 THEN << >> ELSE SubSeq(u, p + 1, Len(u))
      e == Len(SelectSeq(frac, IsDigit))
      m == DigitsValue(whole, 0) * Pow10(e) + DigitsValue(frac, 0)
      n == Normalise(m, e)
  IN PyFloat(Sign(Strip(s)) * n[1], n[2])

\* --------------------------------------------------- the two regular expressions
\* r"\d{1,2} \w+ \d{4} endash \d{2}:\d{2}:\d{2} UTC" matched at position i:
\* the index one past the match, 0 when there is no match at i
DigitsAt(s, i, n) == /\ i + n - 1 <= Len(s)
                     /\ \A k \in i..(i + n - 1) : IsDigit(s[k])
RECURSIVE WordRun(_, _)
WordRun(s, i) == IF i <= Len(s) /\ IsWordChar(s[i]) THEN 1 + WordRun(s, i + 1) ELSE 0

DateTail(s, j) ==
  LET w == WordRun(s, j + 1)
      y == j + 1 + w + 1
      t == y + 4 + 3
  IN IF /\ StartsAt(s, j, <<" ">>)
        /\ w >= 1
        /\ StartsAt(s, j + 1 + w, <<" ">>)
        /\ DigitsAt(s, y, 4)
        /\ StartsAt(s, y + 4, <<" ","endash"," ">>)
        /\ DigitsAt(s, t, 2) /\ StartsAt(s, t + 2, <<":">>)
        /\ DigitsAt(s, t + 3, 2) /\ StartsAt(s, t + 5, <<":">>)
        /\ DigitsAt(s, t + 6, 2) /\ StartsAt(s, t + 8, <<" ","U","T","C">>)
     THEN t + 12 ELSE 0

DateMatchAt(s, i) ==
  IF DigitsAt(s, i, 2) /\ DateTail(s, i + 2) # 0 THEN DateTail(s, i + 2)
  ELSE IF DigitsAt(s, i, 1) /\ DateTail(s, i + 1) # 0 THEN DateTail(s, i + 1)
  ELSE 0

\* re.search(...): None, or match.group(0) of the leftmost match
DateSearch(s) ==
  IF \E i \in 1..Len(s) : DateMatchAt(s, i) # 0
    THEN LET i == CHOOSE i \in 1..Len(s) :
                    /\ DateMatchAt(s, i) # 0
                    /\ \A j \in 1..(i-1) : DateMatchAt(s, j) = 0
         IN PyStr(SubSeq(s, i, DateMatchAt(s, i) - 1))
    ELSE None

RECURSIVE GlyphRun(_, _)
GlyphRun(s, i) == IF i <= Len(s) /\ IsGlyphChar(s[i]) THEN 1 + GlyphRun(s, i + 1) ELSE 0

\* "." does not match a newline: the greedy (.+) stops before the first one
RECURSIVE UpToNewline(_)
UpToNewline(s) == IF s = << >> \/ Head(s) = "\n" THEN << >>
                  ELSE <<Head(s)>> \o UpToNewline(Tail(s))

RECURSIVE WsRun(_, _)
WsRun(s, i) == IF i <= Len(s) /\ s[i] \in Whitespace THEN 1 + WsRun(s, i + 1) ELSE 0

\* (.+) tried at position p: the text up to the next newline, << >> on failure
Group2At(s, p) == IF p <= Len(s) THEN UpToNewline(SubSeq(s, p, Len(s))) ELSE << >>

\* \s* tried greedily from position p, longest run first
RECURSIVE TryWs(_, _, _)
TryWs(s, p, ws) == IF Group2At(s, p + ws) # << >> THEN Group2At(s, p + ws)
                   ELSE IF ws = 0 THEN << >>
                   ELSE TryWs(s, p, ws - 1)

\* ([\W_]+)? tried greedily: k glyph characters, longest first, then none
RECURSIVE TryGlyphs(_, _)
TryGlyphs(s, k) ==
  LET g == TryWs(s, k + 1, WsRun(s, k + 1))
  IN IF g # << >> THEN g
     ELSE IF k = 0 THEN << >>
     ELSE TryGlyphs(s, k - 1)

\* re.match(r"([\W_]+)?\s*(.+)", text); group(2).strip() if it matches, else text
TagName(text) ==
  LET g == TryGlyphs(text, GlyphRun(text, 1))
  IN IF g = << >> THEN text ELSE Strip(g)
\* ------------------------------------------------------------ the documents
\* A document is what the selectors of the block parsers can see of the tree:
\*   info    "div.span8 table": its tr rows; a row has ncells td cells, the text
\*           of the first, and the text, the links and the icons of the second
\*   rating  'a[itemprop="aggregateRating"]' and its two meta nodes
\*   tags    "div.store-tags" and "div.header-app-tags": the texts of their
\*           a[href^='/tag/'] links
\*   body    the sibling nodes that carry the category sections: h2/h3 headings
\*           and div.store-categories blocks with their "a.btn span" texts
\*   prices  "table.table-prices": its tbody rows, each a sequence of td cells
SeqsUpTo(S, n) == UNION {[1..k -> S] : k \in 0..n}

Absent == [present |-> FALSE]

InfoRow(n, label, text, links, icons) ==
  [ncells |-> n, label |-> label, text |-> text, links |-> links, icons |-> icons]
InfoRowPool ==
  { InfoRow(2, <<"A","p","p"," ","I","D">>, <<" ","4","4","0"," ">>, << >>, {}),
    InfoRow(2, <<"A","p","p"," ","I","D">>, <<"n","/","a">>, << >>, {}),
    InfoRow(3, <<"A","p","p"," ","I","D">>, <<"7","3","0">>, << >>, {}),
    InfoRow(2, <<"A","p","p"," ","T","y","p","e">>, <<"G","a","m","e">>, << >>, {}),
    InfoRow(2, <<"D","e","v","e","l","o","p","e","r">>, <<"V","a","l","v","e">>, <<<<"V","a","l","v","e">>>>, {}),
    InfoRow(2, <<"P","u","b","l","i","s","h","e","r">>, <<"V","a","l","v","e">>, <<<<"V","a","l","v","e">>>>, {}),
    InfoRow(2, <<"S","u","p","p","o","r","t","e","d"," ","S","y","s","t","e","m","s">>, << >>, << >>, {"octicon-windows", "octicon-apple"}),
    InfoRow(2, <<"R","e","l","e","a","s","e"," ","D","a","t","e">>, <<"R","e","l","e","a","s","e","d"," ","3"," ","J","u","l","y"," ","2","0","1","5"," ","endash"," ","1","7",":","0","0",":","0","0"," ","U","T","C"," ","w","o","r","l","d","w","i","d","e">>, << >>, {}),
    InfoRow(2, <<"R","e","l","e","a","s","e"," ","D","a","t","e">>, <<"3"," ","J","u","l","y"," ","2","0","1","5">>, << >>, {}),
    InfoRow(2, <<"S","t","o","r","e"," ","N","a","m","e">>, <<"T","F","2">>, << >>, {}) }
InfoTable(rows) == [present |-> TRUE, rows |-> rows]
RichInfo == {Absent} \cup {InfoTable(r) : r \in SeqsUpTo(InfoRowPool, MaxInfoRows)}
BasicInfo == {Absent, InfoTable(<<InfoRow(2, <<"A","p","p"," ","I","D">>, <<"4","4","0">>, << >>, {})>>)}

Meta(content) == [present |-> TRUE, hasContent |-> TRUE, content |-> content]
MetaNoContent == [present |-> TRUE, hasContent |-> FALSE]
RatingBlock(rating, reviews) == [present |-> TRUE, rating |-> rating, reviews |-> reviews]
RichRating ==
  {Absent} \cup
  { RatingBlock(a, b) : a \in {Absent, MetaNoContent, Meta(<<"8","7",".","5">>), Meta(<<"n","/","a">>)},
                        b \in {Absent, MetaNoContent, Meta(<<"1","2","3","4">>), Meta(<<"1","2",".","5">>)} }
BasicRating == {Absent, RatingBlock(Meta(<<"8","7",".","5">>), Meta(<<"1","2","3","4">>))}

TagTextPool == {<<"star"," ","A","c","t","i","o","n">>, <<"R","P","G">>, <<"star">>, <<" ">>}
TagBlock(links) == [present |-> TRUE, links |-> links]
RichTags ==
  { [store |-> s, header |-> h] :
      s \in {Absent} \cup {TagBlock(l) : l \in SeqsUpTo(TagTextPool, MaxTags)},
      h \in {Absent, TagBlock(<< >>), TagBlock(<<<<"R","P","G">>>>)} }
BasicTags == { [store |-> Absent, header |-> Absent],
               [store |-> TagBlock(<<<<"star"," ","A","c","t","i","o","n">>>>), header |-> Absent] }

Heading(text) == [kind |-> "heading", text |-> text]
CategoryBlock(items) == [kind |-> "store-categories", items |-> items]
NodePool == { Heading(<<"C","a","t","e","g","o","r","i","e","s">>), Heading(<<"H","a","r","d","w","a","r","e">>),
              Heading(<<"A","c","c","e","s","s","i","b","i","l","i","t","y">>), Heading(<<"A","c","h","i","e","v","e","m","e","n","t","s">>),
              CategoryBlock(<<<<"S","o","l","o">>>>), CategoryBlock(<< >>) }
RichBody == SeqsUpTo(NodePool, MaxNodes)
BasicBody == { << >>, <<Heading(<<"C","a","t","e","g","o","r","i","e","s">>), CategoryBlock(<<<<"S","o","l","o">>>>)>> }

Cell(priceLine, text) == [priceLine |-> priceLine, text |-> text]
PriceRowPool ==
  { <<Cell(TRUE, <<"C","I","S"," ","-"," ","U",".","S","."," ","D","o","l","l","a","r">>), Cell(FALSE, <<"$","9",".","9","9">>), Cell(FALSE, <<"$","7",".","4","9">>)>>,
    <<Cell(TRUE, <<"A","r","g","e","n","t","i","n","e"," ","P","e","s","o">>), Cell(FALSE, <<"$","9",".","9","9">>), Cell(FALSE, <<"$","7",".","4","9">>)>>,
    <<Cell(TRUE, <<"E","U","-"," ","E","u","r","o">>), Cell(FALSE, <<"9",",","9","9">>)>>,
    <<Cell(TRUE, <<"E","u","r","o">>), Cell(FALSE, <<"8",",","9","9">>), Cell(FALSE, <<"5",",","9","9">>)>>,
    <<Cell(TRUE, <<"E","u","r","o">>)>>,
    <<Cell(FALSE, <<"U",".","S","."," ","D","o","l","l","a","r">>), Cell(FALSE, <<"$","9",".","9","9">>)>> }
PriceTable(rows) == [present |-> TRUE, rows |-> rows]
RichPrices == {Absent} \cup {PriceTable(r) : r \in SeqsUpTo(PriceRowPool, MaxPriceRows)}
BasicPrices ==
  { Absent,
    PriceTable(<< <<Cell(TRUE, <<"U",".","S","."," ","D","o","l","l","a","r">>), Cell(FALSE, <<"$","9",".","9","9">>), Cell(FALSE, <<"$","7",".","4","9">>)>> >>) }

\* the documents drawn: one region ranges over its rich set, the others over
\* absent / one typical content
Docs ==
  [info : RichInfo, rating : BasicRating, tags : BasicTags, body : BasicBody, prices : BasicPrices]
  \cup [info : BasicInfo, rating : RichRating, tags : BasicTags, body : BasicBody, prices : BasicPrices]
  \cup [info : BasicInfo, rating : BasicRating, tags : RichTags, body : BasicBody, prices : BasicPrices]
  \cup [info : BasicInfo, rating : BasicRating, tags : BasicTags, body : RichBody, prices : BasicPrices]
  \cup [info : BasicInfo, rating : BasicRating, tags : BasicTags, body : BasicBody, prices : RichPrices]
NoDoc == [info |-> Absent, rating |-> Absent, tags |-> [store |-> Absent, header |-> Absent],
          body |-> << >>, prices |-> Absent]

\* the listing exports drawn: the "app_id" column may be missing altogether
CsvCellPool == {<<"1","0">>, <<"2","0">>, <<" ","3","0"," ">>, <<"x">>}
CsvFiles == [hasColumn : BOOLEAN, cells : SeqsUpTo(CsvCellPool, MaxCsvRows)]
StartFroms == {None} \cup {PyInt(n) : n \in {10, 20, 30, 40}}
NoCsv == [hasColumn |-> FALSE, cells |-> << >>]

\* the ranked tables drawn ("table.table-products tbody tr"): a row has its
\* data-appid attribute (None when missing) and its td cells; the text of the
\* j-th cell is "c" followed by j - 1, its 0-based index
ChartCells(n) == [j \in 1..n |-> <<"c", <<"0","1","2","3","4","5","6","7","8","9">>[j]>>]
ChartRow(appid, n) == [appid |-> appid, cells |-> ChartCells(n)]
ChartRowPool == {ChartRow(a, n) : a \in {None, PyStr(<<"1","0">>)}, n \in {0, 2, 5, 6, 7}}
ChartTables == SeqsUpTo(ChartRowPool, MaxChartRows)

\* ------------------------------------------------------------ block parsers
\* the loop body of StoreInfoParser.parse for one row
StoreInfoRow(data, row) ==
  LET label == Strip(row.label)
      links == PyList([i \in 1..Len(row.links) |-> Strip(row.links[i])])
      systems ==
        (IF "octicon-windows" \in row.icons THEN <<<<"W","i","n","d","o","w","s">>>> ELSE << >>)
        \o (IF "octicon-linux" \in row.icons THEN <<<<"L","i","n","u","x">>>> ELSE << >>)
        \o (IF "octicon-apple" \in row.icons THEN <<<<"m","a","c","O","S">>>> ELSE << >>)
  IN IF row.ncells # 2 THEN data
     ELSE IF label = <<"A","p","p"," ","I","D">> THEN
            IF IntOk(Strip(row.text))
              THEN [data EXCEPT !["app_id"] = PyInt(IntValue(Strip(row.text)))]
              ELSE data
     ELSE IF label = <<"A","p","p"," ","T","y","p","e">> THEN [data EXCEPT !["app_type"] = PyStr(Strip(row.text))]
     ELSE IF label = <<"D","e","v","e","l","o","p","e","r">> THEN [data EXCEPT !["developer"] = links]
     ELSE IF label = <<"P","u","b","l","i","s","h","e","r">> THEN [data EXCEPT !["publisher"] = links]
     ELSE IF label = <<"S","u","p","p","o","r","t","e","d"," ","S","y","s","t","e","m","s">> THEN [data EXCEPT !["supported_systems"] = PyList(systems)]
     ELSE IF label = <<"R","e","l","e","a","s","e"," ","D","a","t","e">> THEN
            IF DateSearch(Strip(row.text)) # None
              THEN [data EXCEPT !["release_date"] = DateSearch(Strip(row.text))]
              ELSE data
     ELSE data

RECURSIVE StoreInfoRows(_, _)
StoreInfoRows(data, rows) ==
  IF rows = << >> THEN data
  ELSE StoreInfoRows(StoreInfoRow(data, Head(rows)), Tail(rows))

StoreInfoDefaults ==
  [k \in {"app_id", "app_type", "developer", "publisher", "supported_systems", "release_date"} |->
     IF k \in {"developer", "publisher", "supported_systems"} THEN PyList(<< >>) ELSE None]

\* StoreInfoParser.parse answering the defaults when the table is missing
StoreInfoParser_DefaultsWithoutTable(d) ==
  IF ~d.info.present THEN StoreInfoDefaults
  ELSE StoreInfoRows(StoreInfoDefaults, d.info.rows)

\* StoreInfoParser.parse
StoreInfoParser(d) ==
  IF ~d.info.present THEN EmptyDict
  ELSE StoreInfoRows(StoreInfoDefaults, d.info.rows)

\* RatingParser.parse: the exception it raises, "" when it returns
RatingRaises(d) ==
  LET b == d.rating
  IN IF ~b.present THEN ""
     ELSE IF b.rating.present /\ ~b.rating.hasContent THEN "KeyError"
     ELSE IF b.rating.present /\ ~FloatOk(b.rating.content) THEN "ValueError"
     ELSE IF b.reviews.present /\ ~b.reviews.hasContent THEN "KeyError"
     ELSE IF b.reviews.present /\ ~IntOk(b.reviews.content) THEN "ValueError"
     ELSE ""

\* RatingParser.parse: the dict it returns when it does not raise
RatingParser(d) ==
  LET b == d.rating
  IN [k \in {"rating_percent", "reviews_count"} |->
        IF ~b.present THEN None
        ELSE IF k = "rating_percent"
          THEN (IF b.rating.present THEN FloatValue(b.rating.content) ELSE None)
          ELSE (IF b.reviews.present THEN PyInt(IntValue(b.reviews.content)) ELSE None)]

RECURSIVE TagNames(_)
TagNames(links) ==
  IF links = << >> THEN << >>
  ELSE LET name == TagName(Strip(Head(links)))
       IN (IF name # << >> THEN <<name>> ELSE << >>) \o TagNames(Tail(links))

\* TagsParser.parse answering {} when neither region exists
TagsParser_EmptyWithoutRegion(d) ==
  LET tags_block == IF d.tags.store.present THEN d.tags.store ELSE d.tags.header
  IN IF ~tags_block.present THEN EmptyDict
     ELSE [k \in {"tags"} |-> PyList(TagNames(tags_block.links))]

\* TagsParser.parse emitting its list under the key of the next parser
TagsParser_UnderCategories(d) ==
  LET tags_block == IF d.tags.store.present THEN d.tags.store ELSE d.tags.header
  IN [k \in {"categories"} |->
        IF ~tags_block.present THEN PyList(<< >>) ELSE PyList(TagNames(tags_block.links))]

\* TagsParser.parse
TagsParser(d) ==
  LET tags_block == IF d.tags.store.present THEN d.tags.store ELSE d.tags.header
  IN [k \in {"tags"} |->
        IF ~tags_block.present THEN PyList(<< >>) ELSE PyList(TagNames(tags_block.links))]

\* soup.find(h2/h3 whose text contains title): its position in the body, 0 if none
FindHeader(body, title) ==
  LET hit(i) == body[i].kind = "heading" /\ Contains(body[i].text, title)
  IN IF \E i \in 1..Len(body) : hit(i)
       THEN CHOOSE i \in 1..Len(body) : hit(i) /\ \A j \in 1..(i-1) : ~hit(j)
       ELSE 0

\* header.find_next_sibling("div", class_="store-categories"): position, 0 if none
FindNextSibling(body, h) ==
  LET hit(i) == i > h /\ body[i].kind = "store-categories"
  IN IF \E i \in 1..Len(body) : hit(i)
       THEN CHOOSE i \in 1..Len(body) : hit(i) /\ \A j \in 1..(i-1) : ~hit(j)
       ELSE 0

\* NamedCategoriesParser(title, result_key).parse
NamedCategoriesParser(title, result_key, d) ==
  LET header == FindHeader(d.body, title)
      block == FindNextSibling(d.body, header)
      items == [i \in 1..Len(d.body[block].items) |-> Strip(d.body[block].items[i])]
  IN IF header = 0 THEN EmptyDict
     ELSE IF block = 0 THEN EmptyDict
     ELSE IF items # << >> THEN [k \in {result_key} |-> PyList(items)]
     ELSE EmptyDict

\* PricesParser.currencies
DefaultCurrencies == <<<<"C","I","S"," ","-"," ","U",".","S","."," ","D","o","l","l","a","r">>, <<"U",".","S","."," ","D","o","l","l","a","r">>, <<"E","u","r","o">>>>

\* the qualifier cut whenever the name has several words
CurrencyName_AlwaysCut(text) ==
  LET name == Strip(text)
  IN IF Contains(name, <<" ">>) THEN Join(<<" ">>, Tail(SplitWs(name))) ELSE name

\* the currency name of a row after the "REGION- " qualifier is cut
CurrencyName(text) ==
  LET name == Strip(text)
  IN IF Contains(name, <<" ">>) /\ EndsWith(SplitWs(name)[1], <<"-">>)
       THEN Join(<<" ">>, Tail(SplitWs(name)))
       ELSE name

PriceLineCell(row) ==
  IF \E i \in 1..Len(row) : row[i].priceLine
    THEN CHOOSE i \in 1..Len(row) : row[i].priceLine /\ \A j \in 1..(i-1) : ~row[j].priceLine
    ELSE 0

\* the loop of PricesParser.parse
RECURSIVE PriceRows(_, _)
PriceRows(prices_data, rows) ==
  IF rows = << >> THEN prices_data
  ELSE
    LET row == Head(rows)
        c == PriceLineCell(row)
        currency_name == CurrencyName(row[c].text)
        entry == [k \in {"current_price", "lowest_recorded_price"} |->
                    IF k = "current_price"
                      THEN (IF Len(row) >= 2 THEN PyStr(Strip(row[2].text)) ELSE None)
                      ELSE (IF Len(row) >= 1 THEN PyStr(Strip(row[Len(row)].text)) ELSE None)]
    IN IF c = 0 THEN PriceRows(prices_data, Tail(rows))
       ELSE IF \A i \in 1..Len(DefaultCurrencies) : DefaultCurrencies[i] # currency_name
         THEN PriceRows(prices_data, Tail(rows))
       ELSE PriceRows(Update(prices_data, [k \in {currency_name} |-> PyDict(entry)]), Tail(rows))

\* PricesParser.parse
PricesParser(d) ==
  IF ~d.prices.present THEN EmptyDict
  ELSE [k \in {"prices"} |-> PyDict(PriceRows(EmptyDict, d.prices.rows))]

\* ------------------------------------------------------------------ flatten
\* join_list with the non-list case answering None
join_list_NoneWhenAbsent(value) ==
  IF value.t = "list" THEN PyStr(Join(<<" ","|"," ">>, value.v)) ELSE None

\* join_list
join_list(value) == IF value.t = "list" THEN PyStr(Join(<<" ","|"," ">>, value.v)) ELSE PyStr(<< >>)

Column(k, v) == [k |-> k, v |-> v]

\* prices.get(currency, {}).get(field)
PriceOf(prices, currency, field) ==
  IF currency \in DOMAIN prices.v THEN Get(prices.v[currency].v, field, None) ELSE None

\* the items of the dict literal of flatten, section by section
StoreInfoColumns(data) ==
  << Column("app_id", Get(data, "app_id", None)),
     Column("app_type", Get(data, "app_type", None)),
     Column("developer", join_list(Get(data, "developer", None))),
     Column("publisher", join_list(Get(data, "publisher", None))),
     Column("supported_systems", join_list(Get(data, "supported_systems", None))),
     Column("release_date", Get(data, "release_date", None)) >>

RatingColumns(data) ==
  << Column("rating_percent", Get(data, "rating_percent", None)),
     Column("reviews_count", Get(data, "reviews_count", None)) >>

TagColumns(data) ==
  << Column("tags", join_list(Get(data, "tags", None))),
     Column("categories", join_list(Get(data, "categories", None))),
     Column("hardware_categories", join_list(Get(data, "hardware_categories", None))),
     Column("accessibility_categories", join_list(Get(data, "accessibility_categories", None))) >>

PriceColumns(prices) ==
  << Column("price_usd_current", PriceOf(prices, <<"U",".","S","."," ","D","o","l","l","a","r">>, "current_price")),
     Column("price_usd_lowest", PriceOf(prices, <<"U",".","S","."," ","D","o","l","l","a","r">>, "lowest_recorded_price")),
     Column("price_eur_current", PriceOf(prices, <<"E","u","r","o">>, "current_price")),
     Column("price_eur_lowest", PriceOf(prices, <<"E","u","r","o">>, "lowest_recorded_price")),
     Column("price_cis_current", PriceOf(prices, <<"C","I","S"," ","-"," ","U",".","S","."," ","D","o","l","l","a","r">>, "current_price")),
     Column("price_cis_lowest", PriceOf(prices, <<"C","I","S"," ","-"," ","U",".","S","."," ","D","o","l","l","a","r">>, "lowest_recorded_price")) >>

\* flatten emitting the price columns only for a record that has prices
flatten_PricesOnlyIfPresent(data) ==
  StoreInfoColumns(data) \o RatingColumns(data) \o TagColumns(data)
  \o (IF "prices" \in DOMAIN data THEN PriceColumns(data["prices"]) ELSE << >>)

\* flatten: the row as the ordered sequence of its (column, value) items
flatten(data) ==
  StoreInfoColumns(data) \o RatingColumns(data) \o TagColumns(data)
  \o PriceColumns(Get(data, "prices", PyDict(EmptyDict)))

\* row.keys()
Keys(r) == [i \in 1..Len(r) |-> r[i].k]
\* row[column]
ValueOf(r, column) == r[CHOOSE i \in 1..Len(r) : r[i].k = column].v

\* -------------------------------------------------------------- load_app_ids
\* the loop of load_app_ids: rows whose app_id is missing or not an int are skipped
RECURSIVE ReadAppIds(_, _)
ReadAppIds(hasColumn, cells) ==
  IF cells = << >> \/ ~hasColumn THEN << >>
  ELSE (IF IntOk(Head(cells)) THEN <<IntValue(Head(cells))>> ELSE << >>)
       \o ReadAppIds(hasColumn, Tail(cells))

\* list.index answering the last occurrence
IndexOf_Last(l, x) == CHOOSE i \in 1..Len(l) : l[i] = x /\ \A j \in (i+1)..Len(l) : l[j] # x

\* list.index(x) for an x that occurs
IndexOf(l, x) == CHOOSE i \in 1..Len(l) : l[i] = x /\ \A j \in 1..(i-1) : l[j] # x
Occurs(l, x) == \E i \in 1..Len(l) : l[i] = x

\* ------------------------------------------------------ parse_steamdb_charts
\* the dict appended for a row (cells[0], cells[2] .. cells[5])
ChartRecord(r) ==
  [app_id |-> r.appid,
   rank |-> PyStr(r.cells[1]),
   name |-> PyStr(r.cells[3]),
   current_players |-> PyStr(r.cells[4]),
   peak_24h |-> PyStr(r.cells[5]),
   all_time_peak |-> PyStr(r.cells[6])]

\* the loop body letting a short row pass without a record
ChartsRow_SkipShort(d, r) ==
  IF Len(r.cells) < 6 THEN [data |-> d, exc |-> ""]
  ELSE [data |-> Append(d, ChartRecord(r)), exc |-> ""]

\* the loop body of parse_steamdb_charts for one row: the list after it and the
\* exception raised; indexing the list of cells past its end raises IndexError
\* before data.append is reached
ChartsRow(d, r) ==
  IF Len(r.cells) < 6 THEN [data |-> d, exc |-> "IndexError"]
  ELSE [data |-> Append(d, ChartRecord(r)), exc |-> ""]
\* -------------------------------------------------------------------- state
VARIABLES
  op,          \* which entry point runs: "page" (parse, flatten, write one
               \* document), "flatten" (flatten on a given dict), "load"
               \* (load_app_ids), "charts" (parse_steamdb_charts)
  pc,          \* position of the run
  doc,         \* the document handed to SteamDBPageParser.parse
  result,      \* the dict SteamDBPageParser.parse folds the partial dicts into,
               \* then the argument of flatten
  row,         \* the dict flatten returned, << >> before
  fieldnames,  \* fieldnames of the csv.DictWriter of main, << >> before it exists
  exc,         \* the exception that escaped, "" if none
  csv,         \* the listing export read by load_app_ids
  start_from,  \* its start_from argument
  app_ids,     \* the list load_app_ids returned
  rows,        \* the body rows of the ranked table read by parse_steamdb_charts
  data,        \* its list of records
  idx          \* the number of rows its loop has gone through
vars == <<op, pc, doc, result, row, fieldnames, exc, csv, start_from, app_ids, rows, data, idx>>

\* the dicts flatten is applied to directly: every restriction of a full record
FullRecord ==
  Update(Update(Update(Update(Update(Update(
    StoreInfoParser([NoDoc EXCEPT !.info = InfoTable(<<InfoRow(2, <<"A","p","p"," ","I","D">>, <<"4","4","0">>, << >>, {}),
                                                      InfoRow(2, <<"D","e","v","e","l","o","p","e","r">>, << >>, <<<<"V","a","l","v","e">>, <<"H","i","d","d","e","n"," ","P","a","t","h">>>>, {})>>)]),
    RatingParser([NoDoc EXCEPT !.rating = RatingBlock(Meta(<<"8","7",".","5">>), Meta(<<"1","2","3","4">>))])),
    TagsParser([NoDoc EXCEPT !.tags.store = TagBlock(<<<<"R","P","G">>>>)])),
    [k \in {"categories"} |-> PyList(<<<<"S","o","l","o">>>>)]),
    [k \in {"hardware_categories"} |-> PyList(<<<<"V","R">>, <<"P","a","d">>>>)]),
    [k \in {"accessibility_categories"} |-> PyList(<<<<"S","u","b","t","i","t","l","e","s">>>>)]),
    PricesParser([NoDoc EXCEPT !.prices = PriceTable(<< <<Cell(TRUE, <<"E","u","r","o">>), Cell(FALSE, <<"9",",","9","9">>), Cell(FALSE, <<"4",",","9","9">>)>> >>)]))
Records == {[k \in K |-> FullRecord[k]] : K \in SUBSET DOMAIN FullRecord}

InitPage ==
  /\ op = "page" /\ pc = "store_info"
  /\ doc \in Docs
  /\ result = EmptyDict
  /\ csv = NoCsv /\ start_from = None /\ rows = << >>

InitFlatten ==
  /\ op = "flatten" /\ pc = "parsed"
  /\ doc = NoDoc
  /\ result \in Records
  /\ csv = NoCsv /\ start_from = None /\ rows = << >>

InitLoad ==
  /\ op = "load" /\ pc = "load"
  /\ doc = NoDoc
  /\ result = EmptyDict
  /\ csv \in CsvFiles /\ start_from \in StartFroms /\ rows = << >>

InitCharts ==
  /\ op = "charts" /\ pc = "charts_loop"
  /\ doc = NoDoc
  /\ result = EmptyDict
  /\ csv = NoCsv /\ start_from = None
  /\ rows \in ChartTables

Init ==
  /\ InitPage \/ InitFlatten \/ InitLoad \/ InitCharts
  /\ row = << >> /\ fieldnames = << >> /\ exc = "" /\ app_ids = << >> /\ data = << >> /\ idx = 0

\* ------------------------------------------------------------------ actions
\* SteamDBPageParser.parse runs the parsers in the order of self.parsers; each
\* action is one turn of its loop, result.update(parser.parse(soup))
\* turn 1: StoreInfoParser()
StoreInfoParse ==
  /\ op = "page" /\ pc = "store_info"
  /\ result' = Update(result, StoreInfoParser(doc))
  /\ pc' = "rating"
  /\ UNCHANGED <<op, doc, row, fieldnames, exc, csv, start_from, app_ids, rows, data, idx>>

\* turn 2: RatingParser(); its exception escapes SteamDBPageParser.parse
RatingParse ==
  /\ op = "page" /\ pc = "rating"
  /\ IF RatingRaises(doc) # ""
       THEN /\ exc' = RatingRaises(doc)
            /\ pc' = "raised"
            /\ UNCHANGED result
       ELSE /\ result' = Update(result, RatingParser(doc))
            /\ pc' = "tags"
            /\ UNCHANGED exc
  /\ UNCHANGED <<op, doc, row, fieldnames, csv, start_from, app_ids, rows, data, idx>>

\* turn 3: TagsParser()
TagsParse ==
  /\ op = "page" /\ pc = "tags"
  /\ result' = Update(result, TagsParser(doc))
  /\ pc' = "categories"
  /\ UNCHANGED <<op, doc, row, fieldnames, exc, csv, start_from, app_ids, rows, data, idx>>

\* turn 4: NamedCategoriesParser("Categories", "categories")
CategoriesParse ==
  /\ op = "page" /\ pc = "categories"
  /\ result' = Update(result, NamedCategoriesParser(<<"C","a","t","e","g","o","r","i","e","s">>, "categories", doc))
  /\ pc' = "hardware_categories"
  /\ UNCHANGED <<op, doc, row, fieldnames, exc, csv, start_from, app_ids, rows, data, idx>>

\* turn 5: NamedCategoriesParser("Hardware", "hardware_categories")
HardwareParse ==
  /\ op = "page" /\ pc = "hardware_categories"
  /\ result' = Update(result, NamedCategoriesParser(<<"H","a","r","d","w","a","r","e">>, "hardware_categories", doc))
  /\ pc' = "accessibility_categories"
  /\ UNCHANGED <<op, doc, row, fieldnames, exc, csv, start_from, app_ids, rows, data, idx>>

\* turn 6: NamedCategoriesParser("Accessibility", "accessibility_categories")
AccessibilityParse ==
  /\ op = "page" /\ pc = "accessibility_categories"
  /\ result' = Update(result, NamedCategoriesParser(<<"A","c","c","e","s","s","i","b","i","l","i","t","y">>, "accessibility_categories", doc))
  /\ pc' = "prices"
  /\ UNCHANGED <<op, doc, row, fieldnames, exc, csv, start_from, app_ids, rows, data, idx>>

\* turn 7: PricesParser(); SteamDBPageParser.parse returns result
PricesParse ==
  /\ op = "page" /\ pc = "prices"
  /\ result' = Update(result, PricesParser(doc))
  /\ pc' = "parsed"
  /\ UNCHANGED <<op, doc, row, fieldnames, exc, csv, start_from, app_ids, rows, data, idx>>

\* row = flatten(data)
Flatten ==
  /\ pc = "parsed"
  /\ row' = flatten(result)
  /\ pc' = "flattened"
  /\ UNCHANGED <<op, doc, result, fieldnames, exc, csv, start_from, app_ids, rows, data, idx>>

\* main: an empty row is skipped, the first row written fixes the fieldnames
WriteRow ==
  /\ pc = "flattened"
  /\ IF row = << >>
       THEN UNCHANGED fieldnames
       ELSE fieldnames' = Keys(row)
  /\ pc' = "written"
  /\ UNCHANGED <<op, doc, result, row, exc, csv, start_from, app_ids, rows, data, idx>>

\* load_app_ids(csv_path, start_from)
LoadAppIds ==
  /\ op = "load" /\ pc = "load"
  /\ LET ids == ReadAppIds(csv.hasColumn, csv.cells)
     IN IF start_from = None
          THEN app_ids' = ids /\ pc' = "loaded" /\ UNCHANGED exc
        ELSE IF ~Occurs(ids, start_from.v)
          THEN exc' = "ValueError" /\ pc' = "raised" /\ UNCHANGED app_ids
        ELSE /\ app_ids' = SubSeq(ids, IndexOf(ids, start_from.v), Len(ids))
             /\ pc' = "loaded" /\ UNCHANGED exc
  /\ UNCHANGED <<op, doc, result, row, fieldnames, csv, start_from, rows, data, idx>>

\* one turn of "for row in rows" of parse_steamdb_charts
ChartsLoop ==
  /\ op = "charts" /\ pc = "charts_loop"
  /\ idx < Len(rows)
  /\ LET r == ChartsRow(data, rows[idx + 1])
     IN IF r.exc # ""
          THEN exc' = r.exc /\ pc' = "raised" /\ UNCHANGED <<data, idx>>
          ELSE data' = r.data /\ idx' = idx + 1 /\ UNCHANGED <<exc, pc>>
  /\ UNCHANGED <<op, doc, result, row, fieldnames, csv, start_from, app_ids, rows>>

\* the loop is over: return pd.DataFrame(data)
ChartsReturn ==
  /\ op = "charts" /\ pc = "charts_loop"
  /\ idx = Len(rows)
  /\ pc' = "charts_done"
  /\ UNCHANGED <<op, doc, result, row, fieldnames, exc, csv, start_from, app_ids, rows, data, idx>>

Next ==
  \/ StoreInfoParse
  \/ RatingParse
  \/ TagsParse
  \/ CategoriesParse
  \/ HardwareParse
  \/ AccessibilityParse
  \/ PricesParse
  \/ Flatten
  \/ WriteRow
  \/ LoadAppIds
  \/ ChartsLoop
  \/ ChartsReturn

Spec == Init /\ [][Next]_vars
\* ------------------------------------------------------------------- claims
\* what a document holds, read off the document itself
HasInfoTable == doc.info.present
HasPriceTable == doc.prices.present
HasTagRegion == doc.tags.store.present \/ doc.tags.header.present
\* a heading whose text contains the title
HasSection(title) ==
  \E i \in 1..Len(doc.body) : doc.body[i].kind = "heading" /\ Contains(doc.body[i].text, title)
\* such a heading with a category block after it
HasSectionBlock(title) ==
  \E i, j \in 1..Len(doc.body) :
    /\ i < j
    /\ doc.body[i].kind = "heading" /\ Contains(doc.body[i].text, title)
    /\ doc.body[j].kind = "store-categories" /\ doc.body[j].items # << >>
\* a value that is present but does not parse
AppIdUnparseable ==
  /\ HasInfoTable
  /\ \E i \in 1..Len(doc.info.rows) :
       /\ doc.info.rows[i].ncells = 2 /\ Strip(doc.info.rows[i].label) = <<"A","p","p"," ","I","D">>
       /\ ~IntOk(doc.info.rows[i].text)
  /\ \A i \in 1..Len(doc.info.rows) :
       doc.info.rows[i].ncells = 2 /\ Strip(doc.info.rows[i].label) = <<"A","p","p"," ","I","D">>
         => ~IntOk(doc.info.rows[i].text)
RatingUnparseable ==
  /\ doc.rating.present
  /\ \/ doc.rating.rating.present /\ (~doc.rating.rating.hasContent \/ doc.rating.rating.content = <<"n","/","a">>)
     \/ doc.rating.reviews.present /\ (~doc.rating.reviews.hasContent \/ doc.rating.reviews.content = <<"1","2",".","5">>)
Returned == pc \in {"parsed", "flattened", "written"}
Flattened == pc \in {"flattened", "written"}

StoreInfoKeys == {"app_id", "app_type", "developer", "publisher", "supported_systems", "release_date"}

\* C1: no exception escapes SteamDBPageParser.parse because of one block parser:
\* a document holding an unparseable App ID or rating value is still parsed to
\* the end, the unparseable field is None and the keys of the other parsers
\* are there.
C1_NoBlockFailureEscapes ==
  op = "page" =>
    /\ exc = "" /\ pc # "raised"
    /\ Returned /\ AppIdUnparseable => result["app_id"] = None /\ "tags" \in DOMAIN result
    /\ Returned /\ RatingUnparseable =>
         /\ "rating_percent" \in DOMAIN result /\ "tags" \in DOMAIN result
         /\ HasInfoTable => "app_id" \in DOMAIN result

\* C2 as stated: every record returned holds the key app_id, also without a
\* primary info table, and every other key only if its region was found.
C2_AppIdAlwaysPresent ==
  op = "page" /\ Returned =>
    /\ "app_id" \in DOMAIN result
    /\ \A k \in StoreInfoKeys \ {"app_id"} : k \in DOMAIN result => HasInfoTable
    /\ "rating_percent" \in DOMAIN result => doc.rating.present
    /\ "tags" \in DOMAIN result => HasTagRegion
    /\ "categories" \in DOMAIN result => HasSection(<<"C","a","t","e","g","o","r","i","e","s">>)
    /\ "hardware_categories" \in DOMAIN result => HasSection(<<"H","a","r","d","w","a","r","e">>)
    /\ "accessibility_categories" \in DOMAIN result => HasSection(<<"A","c","c","e","s","s","i","b","i","l","i","t","y">>)
    /\ "prices" \in DOMAIN result => HasPriceTable

\* C2 amended: the record holds app_id (None when no App ID was read) and the
\* other five classification keys exactly when the document has the primary
\* info table; rating_percent, reviews_count and tags are always there; a
\* category key is there only if its section was found with an item, and
\* prices exactly when the price table was found.
C2_KeysFollowRegions ==
  op = "page" /\ Returned =>
    /\ \A k \in StoreInfoKeys : k \in DOMAIN result <=> HasInfoTable
    /\ HasInfoTable /\ (\A i \in 1..Len(doc.info.rows) : Strip(doc.info.rows[i].label) # <<"A","p","p"," ","I","D">>)
         => result["app_id"] = None
    /\ {"rating_percent", "reviews_count", "tags"} \subseteq DOMAIN result
    /\ "categories" \in DOMAIN result => HasSectionBlock(<<"C","a","t","e","g","o","r","i","e","s">>)
    /\ "hardware_categories" \in DOMAIN result => HasSectionBlock(<<"H","a","r","d","w","a","r","e">>)
    /\ "accessibility_categories" \in DOMAIN result => HasSectionBlock(<<"A","c","c","e","s","s","i","b","i","l","i","t","y">>)
    /\ "prices" \in DOMAIN result <=> HasPriceTable
    /\ DOMAIN result \subseteq StoreInfoKeys \cup {"rating_percent", "reviews_count", "tags",
         "categories", "hardware_categories", "accessibility_categories", "prices"}

\* a document without the primary info table was parsed: no app_id key
C2_Witness ==
  /\ op = "page" /\ pc = "parsed" /\ ~HasInfoTable
  /\ "app_id" \notin DOMAIN result /\ "tags" \in DOMAIN result /\ "prices" \in DOMAIN result

\* C3 as stated: without a "Hardware" section the record has no
\* hardware_categories key and flatten renders None in that column.
C3_AbsentHardwareIsNull ==
  op = "page" /\ ~HasSection(<<"H","a","r","d","w","a","r","e">>) =>
    /\ Returned => "hardware_categories" \notin DOMAIN result
    /\ Flattened => ValueOf(row, "hardware_categories") = None

\* C3 amended: without a "Hardware" section the record has no
\* hardware_categories key and flatten renders the empty string, not None,
\* in that column.
C3_AbsentHardwareIsEmptyString ==
  op = "page" /\ ~HasSection(<<"H","a","r","d","w","a","r","e">>) =>
    /\ Returned => "hardware_categories" \notin DOMAIN result
    /\ Flattened => ValueOf(row, "hardware_categories") = PyStr(<< >>)

\* a document with a "Categories" section but no "Hardware" section was flattened
C3_Witness ==
  /\ op = "page" /\ pc = "flattened"
  /\ ~HasSection(<<"H","a","r","d","w","a","r","e">>) /\ HasSectionBlock(<<"C","a","t","e","g","o","r","i","e","s">>)
  /\ "categories" \in DOMAIN result
  /\ ValueOf(row, "hardware_categories").t = "str"

\* C4: a document with neither tag region yields the key tags with the empty
\* list, and flatten renders the empty string, not None, in the tags column.
C4_MissingTagsAreEmpty ==
  op = "page" /\ ~HasTagRegion =>
    /\ Returned => "tags" \in DOMAIN result /\ result["tags"] = PyList(<< >>)
    /\ Flattened => ValueOf(row, "tags") = PyStr(<< >>) /\ ValueOf(row, "tags") # None

\* a document with neither tag region, but with other regions, was flattened
C4_Witness ==
  /\ op = "page" /\ pc = "flattened"
  /\ ~HasTagRegion /\ HasInfoTable /\ HasPriceTable
  /\ result["tags"].v = << >>

\* the columns of the row, in the order of the dict literal of flatten
FlatColumns ==
  << "app_id", "app_type", "developer", "publisher", "supported_systems", "release_date",
     "rating_percent", "reviews_count",
     "tags", "categories", "hardware_categories", "accessibility_categories",
     "price_usd_current", "price_usd_lowest", "price_eur_current", "price_eur_lowest",
     "price_cis_current", "price_cis_lowest" >>

\* C5 as stated: every row returned by flatten has exactly 19 columns.
C5_NineteenColumns ==
  Flattened => Len(row) = 19

\* C5 amended: for every record, the empty one and those lacking any subset of
\* keys included, flatten returns the same 18 named columns in the same
\* order, each once, and these are the fieldnames the writer takes.
C5_EighteenFixedColumns ==
  /\ Flattened =>
       /\ Len(row) = 18
       /\ Keys(row) = FlatColumns
       /\ \A i, j \in 1..Len(row) : row[i].k = row[j].k => i = j
  /\ pc = "written" => fieldnames = FlatColumns

\* flatten was applied to the empty record
C5_Witness ==
  /\ op = "flatten" /\ pc = "flattened" /\ result = EmptyDict
  /\ Len(row) = 18

\* the identifiers of the export, in file order: the cells that are integers
FullIds == ReadAppIds(csv.hasColumn, csv.cells)

\* C6: with start_from among the identifiers load_app_ids returns the suffix of
\* the identifier sequence that begins at (the first occurrence of)
\* start_from, in file order; with start_from not among them it raises and
\* returns nothing; with start_from None it returns the whole sequence.
C6_LoadAppIdsSuffix ==
  op = "load" /\ pc # "load" =>
    LET found == start_from # None /\ \E i \in 1..Len(FullIds) : FullIds[i] = start_from.v
    IN /\ start_from = None => pc = "loaded" /\ app_ids = FullIds
       /\ found =>
            /\ pc = "loaded" /\ exc = ""
            /\ app_ids # << >> /\ app_ids[1] = start_from.v
            /\ \E k \in 1..Len(FullIds) :
                 /\ \A i \in 1..Len(app_ids) : app_ids[i] = FullIds[k + i - 1]
                 /\ k + Len(app_ids) - 1 = Len(FullIds)
                 /\ \A i \in 1..(k - 1) : FullIds[i] # start_from.v
       /\ start_from # None /\ ~found =>
            pc = "raised" /\ exc = "ValueError" /\ app_ids = << >>

\* the second of three identifiers was given and the last two came back
C6_Witness ==
  /\ op = "load" /\ pc = "loaded"
  /\ Len(csv.cells) = 3 /\ Len(FullIds) = 3
  /\ start_from = PyInt(FullIds[2]) /\ FullIds[1] # FullIds[2]
  /\ app_ids = <<FullIds[2], FullIds[3]>>
\* the rows of the price table that carry a currency name
PriceRowsOf == IF HasPriceTable THEN doc.prices.rows ELSE << >>
Named(i) == PriceLineCell(PriceRowsOf[i]) # 0
NameOf(i) == CurrencyName(PriceRowsOf[i][PriceLineCell(PriceRowsOf[i])].text)
Allowed(name) == \E c \in 1..Len(DefaultCurrencies) : DefaultCurrencies[c] = name
\* the entry the claim gives a row: 2nd cell and last cell
EntryOf(i) ==
  LET r == PriceRowsOf[i]
  IN PyDict([k \in {"current_price", "lowest_recorded_price"} |->
       IF k = "current_price"
         THEN (IF Len(r) >= 2 THEN PyStr(Strip(r[2].text)) ELSE None)
         ELSE PyStr(Strip(r[Len(r)].text))])
\* what holds of the keys of prices in both readings
PriceKeysAllowed ==
  LET prices == result["prices"].v
  IN /\ \A name \in DOMAIN prices : Allowed(name)
     /\ \A name \in DOMAIN prices : \E i \in 1..Len(PriceRowsOf) : Named(i) /\ NameOf(i) = name
     /\ <<"A","r","g","e","n","t","i","n","e"," ","P","e","s","o">> \notin DOMAIN prices
     /\ \A i \in 1..Len(PriceRowsOf) :
          Named(i) /\ Strip(PriceRowsOf[i][PriceLineCell(PriceRowsOf[i])].text) = <<"C","I","S"," ","-"," ","U",".","S","."," ","D","o","l","l","a","r">>
            => <<"C","I","S"," ","-"," ","U",".","S","."," ","D","o","l","l","a","r">> \in DOMAIN prices /\ <<"U",".","S","."," ","D","o","l","l","a","r">> \notin DOMAIN prices

\* C7 as stated: every row whose currency name is in the allow-list yields
\* prices[name] = {2nd cell, last cell}; the other rows contribute nothing.
C7_EveryAllowedRowStored ==
  op = "page" /\ Returned /\ HasPriceTable =>
    /\ PriceKeysAllowed
    /\ \A i \in 1..Len(PriceRowsOf) :
         Named(i) /\ Allowed(NameOf(i)) =>
           /\ NameOf(i) \in DOMAIN result["prices"].v
           /\ result["prices"].v[NameOf(i)] = EntryOf(i)

\* C7 amended: every row whose currency name is in the allow-list and that no
\* later row of the same name follows yields prices[name] = {2nd cell (None
\* for a row of one cell), last cell}; an earlier row of the same name is
\* replaced; the other rows contribute nothing, every key is in the
\* allow-list, "CIS - U.S. Dollar" keeps its name, "Argentine Peso" is dropped.
C7_LastAllowedRowStored ==
  op = "page" /\ Returned /\ HasPriceTable =>
    /\ PriceKeysAllowed
    /\ \A i \in 1..Len(PriceRowsOf) :
         /\ Named(i) /\ Allowed(NameOf(i))
         /\ \A j \in (i + 1)..Len(PriceRowsOf) : Named(j) => NameOf(j) # NameOf(i)
         => /\ NameOf(i) \in DOMAIN result["prices"].v
            /\ result["prices"].v[NameOf(i)] = EntryOf(i)

\* a table with a "CIS - U.S. Dollar" row and an "Argentine Peso" row was parsed
C7_Witness ==
  /\ op = "page" /\ pc = "parsed" /\ HasPriceTable
  /\ Len(PriceRowsOf) = 2
  /\ PriceRowsOf[1][1].text = <<"A","r","g","e","n","t","i","n","e"," ","P","e","s","o">>
  /\ PriceRowsOf[2][1].text = <<"C","I","S"," ","-"," ","U",".","S","."," ","D","o","l","l","a","r">>
  /\ DOMAIN result["prices"].v = {<<"C","I","S"," ","-"," ","U",".","S","."," ","D","o","l","l","a","r">>}
  /\ result["prices"].v[<<"C","I","S"," ","-"," ","U",".","S","."," ","D","o","l","l","a","r">>].v["current_price"] = PyStr(<<"$","9",".","9","9">>)

\* C8: a body row with fewer than 6 cells makes parse_steamdb_charts raise: the
\* run never returns past such a row, no record stands for it, and every
\* record emitted carries the cells 0, 2, 3, 4, 5 of its own row.
C8_ShortRowSurfaces ==
  op = "charts" =>
    /\ idx <= Len(rows) /\ Len(data) = idx
    /\ \A i \in 1..Len(data) :
         /\ Len(rows[i].cells) >= 6
         /\ data[i].app_id = rows[i].appid
         /\ <<data[i].rank.v, data[i].name.v, data[i].current_players.v,
              data[i].peak_24h.v, data[i].all_time_peak.v>>
            = <<<<"c","0">>, <<"c","2">>, <<"c","3">>, <<"c","4">>, <<"c","5">>>>
    /\ pc = "charts_done" =>
         /\ exc = "" /\ Len(data) = Len(rows)
         /\ \A i \in 1..Len(rows) : Len(rows[i].cells) >= 6
    /\ pc = "raised" =>
         /\ exc = "IndexError"
         /\ idx < Len(rows) /\ Len(rows[idx + 1].cells) < 6
    /\ (\E i \in 1..Len(rows) : Len(rows[i].cells) < 6) => pc # "charts_done"

\* a full row was recorded, then a row of five cells raised
C8_Witness ==
  /\ op = "charts" /\ pc = "raised" /\ exc = "IndexError"
  /\ Len(rows) = 2 /\ Len(data) = 1 /\ idx = 1
  /\ Len(rows[2].cells) = 5

\* the tag the claim gives a link text: the whole leading run of glyph
\* characters removed, the remainder trimmed
StrippedTag(text) == Strip(SubSeq(text, GlyphRun(text, 1) + 1, Len(text)))
RECURSIVE StrippedTags(_)
StrippedTags(links) ==
  IF links = << >> THEN << >>
  ELSE (IF StrippedTag(Strip(Head(links))) # << >>
          THEN <<StrippedTag(Strip(Head(links)))>> ELSE << >>)
       \o StrippedTags(Tail(links))
TagLinks == IF doc.tags.store.present THEN doc.tags.store.links ELSE doc.tags.header.links

\* C9: the tags are the link texts with the whole leading run of glyph
\* characters removed and the remainder trimmed, in document order; a text
\* that is empty after that, a text of glyph characters only included, gives
\* no tag, so no tag is empty.
C9_GlyphPrefixStripped ==
  op = "page" /\ Returned /\ HasTagRegion =>
    /\ result["tags"].v = StrippedTags(TagLinks)
    /\ \A i \in 1..Len(result["tags"].v) : result["tags"].v[i] # << >>

\* the keys each parser of self.parsers can emit, by the position it runs at
ParseSteps == <<"store_info", "rating", "tags", "categories", "hardware_categories",
                "accessibility_categories", "prices", "parsed">>
StepOf(p) == CHOOSE i \in 1..Len(ParseSteps) : ParseSteps[i] = p
VariantKeys ==
  << StoreInfoKeys, {"rating_percent", "reviews_count"}, {"tags"}, {"categories"},
     {"hardware_categories"}, {"accessibility_categories"}, {"prices"} >>
Partials ==
  << StoreInfoParser(doc), RatingParser(doc), TagsParser(doc),
     NamedCategoriesParser(<<"C","a","t","e","g","o","r","i","e","s">>, "categories", doc),
     NamedCategoriesParser(<<"H","a","r","d","w","a","r","e">>, "hardware_categories", doc),
     NamedCategoriesParser(<<"A","c","c","e","s","s","i","b","i","l","i","t","y">>, "accessibility_categories", doc),
     PricesParser(doc) >>

C10_FoldStep ==
  op = "page" /\ pc \in {ParseSteps[i] : i \in 1..7} /\ pc' # "raised" =>
    /\ pc' = ParseSteps[StepOf(pc) + 1]
    /\ \A k \in DOMAIN result : k \in DOMAIN result' /\ result'[k] = result[k]
    /\ (DOMAIN result' \ DOMAIN result) \subseteq VariantKeys[StepOf(pc)]
    /\ DOMAIN result \subseteq UNION {VariantKeys[i] : i \in 1..(StepOf(pc) - 1)}

C10_UnionAtReturn ==
  /\ \A i, j \in 1..7 : i # j => VariantKeys[i] \cap VariantKeys[j] = {}
  /\ op = "page" /\ pc = "parsed" =>
       /\ DOMAIN result = UNION {DOMAIN Partials[i] : i \in 1..7}
       /\ \A i \in 1..7 : \A k \in DOMAIN Partials[i] :
            k \in VariantKeys[i] /\ result[k] = Partials[i][k]

\* C10: the seven parsers run in the order of self.parsers; a turn of the fold
\* keeps every key already in the record with its value and adds only keys of
\* the parser of that turn; the key sets of the parsers are pairwise
\* disjoint, so the record returned is the union of the seven partial dicts.
C10_DisjointUnion == [][C10_FoldStep]_vars /\ []C10_UnionAtReturn

\* a document was parsed in which tags, a category section and prices were found
C10_Witness ==
  /\ op = "page" /\ pc = "parsed"
  /\ HasInfoTable /\ doc.rating.present /\ doc.tags.store.present
  /\ {"app_id", "rating_percent", "tags", "categories", "prices"} \subseteq DOMAIN result
  /\ result["tags"].v # << >>
====
